---- MODULE Spec2Model ----
(***************************************************************************)
(* Model of lna_watcher.js: a page script that polls the                   *)
(* "local-network-access" permission every 500 ms (after a 2500 ms         *)
(* warm-up), shows a blocking overlay while the permission is "prompt",    *)
(* and provokes the native prompt with a fire-and-forget fetch.            *)
(*                                                                         *)
(* The event loop is modelled as interleaved atomic steps: one step per    *)
(* synchronous run of a callback (script evaluation, DOMContentLoaded,     *)
(* the activation timeout, an interval tick up to its await, the           *)
(* continuation of a tick after its await, the continuation of the fetch). *)
(* The browser's permission subsystem is an environment: its permission   *)
(* value and its health change at any time, and it answers outstanding    *)
(* queries in any order.                                                   *)
(***************************************************************************)
EXTENDS Integers, Sequences, FiniteSets

\* ---- bounds of the model ----
\* queries issued in a behaviour of Spec
MaxTicks == 4
\* queries issued in a behaviour of RaceSpec
RaceTicks == 3
\* ticks whose query is outstanding at the same time in a behaviour of LiveSpec
MaxInFlight == 2
\* how far the observation counters count in a behaviour of LiveSpec
LiveCount == 1
\* UI functions called in a behaviour of UISpec
MaxCalls == 3

\* ---- program constants ----
START_DELAY == 2500
POLL_INTERVAL == 500

\* PermissionStatus.state values the browser reports
PermStates == {"prompt", "granted", "denied"}
\* initial value of lastState (null), distinct from every PermissionStatus.state
Unset == "null"
\* queryLNA's null result
NoPerm == "noperm"
\* an exception that leaves queryLNA / triggerPrompt
Thrown == "thrown"

VARIABLES
    readyState,     \* document.readyState when the script is evaluated
    pc,             \* "eval": script not yet run, "listening": waiting for DOMContentLoaded, "running": start() has run
    lastState,      \* let lastState
    started,        \* let started
    dom,            \* [styles, dialogs: number of elements with the reserved ids; blocked: body class; show: dialog class]
    startCalls,     \* number of start() runs
    timeouts,       \* number of setTimeout calls made
    timeoutPending, \* the activation timeout has been set and has not fired; value is its delay, 0 when none
    intervals,      \* periods of the setInterval timers created
    perm,           \* the permission's real current value (environment)
    oracle,         \* "absent": no Permissions API; "up": queries succeed; "down": queries reject
    inflight,       \* ticks suspended at `await queryLNA()`, in issue order
    fetchPending,   \* fetches started by triggerPrompt that have not settled
    queriesIssued,  \* number of queryLNA() calls
    ticksFired,     \* number of times the interval timer ran watchPermission
    triggerCalls,   \* number of triggerPrompt() calls
    lastTick,       \* what the most recently completed tick observed and did
    lastChangeObs,  \* observation of the most recent tick that changed lastState
    everAnswered,   \* some query has been answered with a PermissionStatus
    lastFetch,      \* how the most recently settled fetch ended
    uncaught,       \* an exception escaped watchPermission or triggerPrompt
    promptEntries,  \* number of times the permission became "prompt" (environment; counted in RaceSpec)
    uiCalls         \* UI functions called directly on the document, in order (UISpec)

vars == <<readyState, pc, lastState, started, dom, startCalls, timeouts,
          timeoutPending, intervals, perm, oracle, inflight, fetchPending,
          queriesIssued, ticksFired, triggerCalls, lastTick, lastChangeObs,
          everAnswered, lastFetch, uncaught, promptEntries, uiCalls>>

\* observation counters count up to n and stay there; in Spec n is MaxTicks,
\* which the bound on the queries keeps them from passing
Bump(c, n) == IF c < n THEN c + 1 ELSE c

RemoveAt(s, i) == [j \in 1..(Len(s) - 1) |-> IF j < i THEN s[j] ELSE s[j + 1]]

\* ---- UI & style injection ----

injectStyle(d) ==
    IF d.styles > 0 THEN d ELSE [d EXCEPT !.styles = 1]

\* injectDialog without the getElementById check
injectDialog_noCheck(d) ==
    [d EXCEPT !.dialogs = d.dialogs + 1]

injectDialog(d) ==
    IF d.dialogs > 0 THEN d ELSE [d EXCEPT !.dialogs = 1]

\* showDialog written with classList.toggle
showDialog_toggle(d) ==
    [d EXCEPT !.blocked = ~d.blocked,
              !.show = IF d.dialogs > 0 THEN ~d.show ELSE d.show]

showDialog(d) ==
    [d EXCEPT !.blocked = TRUE,
              !.show = IF d.dialogs > 0 THEN TRUE ELSE d.show]

\* hideDialog that forgets the dialog's class
hideDialog_bodyOnly(d) ==
    [d EXCEPT !.blocked = FALSE]

hideDialog(d) ==
    [d EXCEPT !.blocked = FALSE,
              !.show = IF d.dialogs > 0 THEN FALSE ELSE d.show]

\* ---- permission handling ----

\* queryLNA without its try/catch
queryLNA_noCatch(outcome) == outcome

\* queryLNA: outcome is what navigator.permissions.query produced,
\* a PermissionStatus.state or Thrown (no API, or the promise rejected)
queryLNA(outcome) ==
    IF outcome = Thrown THEN NoPerm ELSE outcome

\* triggerPrompt without its try/catch
triggerPrompt_noCatch(outcome) == outcome = Thrown

\* triggerPrompt: outcome is what fetch produced; the result is whether an
\* exception leaves triggerPrompt
triggerPrompt(outcome) == FALSE

\* a gate that also skips the tick while an earlier query is outstanding
watchGate_inFlightGuard(st) == st /\ inflight = <<>>

\* `if (!started) return;`: TRUE when watchPermission goes on to query
watchGate(st) == st

\* the comparison with lastState left out
sameState_never(obs, ls) == FALSE

\* the comparison taking the initial null for any state
sameState_nullMatches(obs, ls) == obs = ls \/ ls = Unset

\* `if (perm.state === lastState) return;`
sameState(obs, ls) == obs = ls

\* what a run of watchPermission after its await did: the new lastState and
\* document, the calls it made, whether it threw, and its effects in order
NoCalls(ls, d) ==
    [lastState |-> ls, dom |-> d, show |-> 0, hide |-> 0, trigger |-> 0,
     threw |-> FALSE, steps |-> <<>>]

\* watchPermissionResume with triggerPrompt() outside the "prompt" branch
watchPermissionResume_triggerOnChange(res, ls, d) ==
    IF res = Thrown THEN [NoCalls(ls, d) EXCEPT !.threw = TRUE]
    ELSE IF res = NoPerm THEN NoCalls(ls, d)
    ELSE IF sameState(res, ls) THEN NoCalls(ls, d)
    ELSE IF res = "prompt"
         THEN [NoCalls(res, showDialog(d)) EXCEPT !.show = 1, !.trigger = 1]
    ELSE [NoCalls(res, hideDialog(d)) EXCEPT !.hide = 1, !.trigger = 1]

\* watchPermissionResume that records a failed query as a state of its own
watchPermissionResume_recordUnknown(res, ls, d) ==
    IF res = Thrown THEN [NoCalls(ls, d) EXCEPT !.threw = TRUE]
    ELSE IF sameState(res, ls) THEN NoCalls(ls, d)
    ELSE IF res = "prompt"
         THEN [NoCalls(res, showDialog(d)) EXCEPT !.show = 1, !.trigger = 1]
    ELSE IF res \in {"granted", "denied"}
         THEN [NoCalls(res, hideDialog(d)) EXCEPT !.hide = 1]
    ELSE NoCalls(res, d)

\* watchPermissionResume that hides the overlay when the query failed
watchPermissionResume_hideOnFailure(res, ls, d) ==
    IF res = Thrown THEN [NoCalls(ls, d) EXCEPT !.threw = TRUE]
    ELSE IF res = NoPerm THEN [NoCalls(ls, hideDialog(d)) EXCEPT !.hide = 1]
    ELSE IF sameState(res, ls) THEN NoCalls(ls, d)
    ELSE IF res = "prompt"
         THEN [NoCalls(res, showDialog(d)) EXCEPT !.show = 1, !.trigger = 1]
    ELSE [NoCalls(res, hideDialog(d)) EXCEPT !.hide = 1]

\* watchPermissionResume without the "denied" branch
watchPermissionResume_noDenied(res, ls, d) ==
    IF res = Thrown THEN [NoCalls(ls, d) EXCEPT !.threw = TRUE]
    ELSE IF res = NoPerm THEN NoCalls(ls, d)
    ELSE IF sameState(res, ls) THEN NoCalls(ls, d)
    ELSE IF res = "prompt"
         THEN [NoCalls(res, showDialog(d)) EXCEPT !.show = 1, !.trigger = 1]
    ELSE IF res = "granted"
         THEN [NoCalls(res, hideDialog(d)) EXCEPT !.hide = 1]
    ELSE NoCalls(res, d)

\* watchPermissionResume without the assignment to lastState
watchPermissionResume_noStore(res, ls, d) ==
    IF res = Thrown THEN [NoCalls(ls, d) EXCEPT !.threw = TRUE]
    ELSE IF res = NoPerm THEN NoCalls(ls, d)
    ELSE IF sameState(res, ls) THEN NoCalls(ls, d)
    ELSE IF res = "prompt"
         THEN [NoCalls(ls, showDialog(d)) EXCEPT !.show = 1, !.trigger = 1]
    ELSE [NoCalls(ls, hideDialog(d)) EXCEPT !.hide = 1]

\* watchPermissionResume with triggerPrompt() started before showDialog()
watchPermissionResume_triggerFirst(res, ls, d) ==
    IF res = Thrown THEN [NoCalls(ls, d) EXCEPT !.threw = TRUE]
    ELSE IF res = NoPerm THEN NoCalls(ls, d)
    ELSE IF sameState(res, ls) THEN NoCalls(ls, d)
    ELSE IF res = "prompt"
         THEN [NoCalls(res, showDialog(d)) EXCEPT !.show = 1, !.trigger = 1,
                  !.steps = <<"lastState", "triggerPrompt", "showDialog">>]
    ELSE [NoCalls(res, hideDialog(d)) EXCEPT !.hide = 1,
             !.steps = <<"lastState", "hideDialog">>]

\* watchPermission after `await queryLNA()`: res is what the await produced
watchPermissionResume(res, ls, d) ==
    IF res = Thrown THEN [NoCalls(ls, d) EXCEPT !.threw = TRUE]
    ELSE IF res = NoPerm THEN NoCalls(ls, d)
    ELSE IF sameState(res, ls) THEN NoCalls(ls, d)
    ELSE IF res = "prompt"
         THEN [NoCalls(res, showDialog(d)) EXCEPT !.show = 1, !.trigger = 1,
                  !.steps = <<"lastState", "showDialog", "triggerPrompt">>]
    ELSE IF res = "granted"
         THEN [NoCalls(res, hideDialog(d)) EXCEPT !.hide = 1,
                  !.steps = <<"lastState", "hideDialog">>]
    ELSE IF res = "denied"
         THEN [NoCalls(res, hideDialog(d)) EXCEPT !.hide = 1,
                  !.steps = <<"lastState", "hideDialog">>]
    ELSE [NoCalls(res, d) EXCEPT !.steps = <<"lastState">>]

\* the query a call of queryLNA leaves outstanding: without the API the call
\* throws inside the try at once, otherwise the promise is pending.
\* late records that a tick issued later has completed while this one was
\* suspended, dup that a tick given the same state has changed lastState
\* while this one was suspended with its answer (both recorded in RaceSpec)
NewQuery ==
    IF oracle = "absent"
    THEN [st |-> "resolved", raw |-> Thrown, res |-> queryLNA(Thrown), late |-> FALSE,
          dup |-> FALSE]
    ELSE [st |-> "pending", raw |-> "none", res |-> "none", late |-> FALSE, dup |-> FALSE]

\* watchPermission up to its await, called with started = st
watchPermissionCall(st, n) ==
    IF watchGate(st)
    THEN /\ inflight' = Append(inflight, NewQuery)
         /\ queriesIssued' = Bump(queriesIssued, n)
    ELSE UNCHANGED <<inflight, queriesIssued>>

\* ---- initial state ----

InitProgram ==
    /\ readyState \in {"loading", "complete"}
    /\ pc = "eval"
    /\ lastState = Unset
    /\ started = FALSE
    /\ dom = [styles |-> 0, dialogs |-> 0, blocked |-> FALSE, show |-> FALSE]
    /\ startCalls = 0
    /\ timeouts = 0
    /\ timeoutPending = 0
    /\ intervals = <<>>
    /\ perm \in PermStates
    /\ oracle \in {"absent", "up", "down"}
    /\ inflight = <<>>
    /\ fetchPending = 0
    /\ queriesIssued = 0
    /\ ticksFired = 0
    /\ triggerCalls = 0
    /\ lastTick = [raw |-> "none", obs |-> "none", prev |-> "none",
                   after |-> "none", show |-> 0, hide |-> 0, trigger |-> 0,
                   late |-> FALSE, dup |-> FALSE, steps |-> <<>>]
    /\ lastChangeObs = "none"
    /\ everAnswered = FALSE
    /\ lastFetch = "none"
    /\ uncaught = FALSE
    /\ uiCalls = <<>>

Init ==
    /\ InitProgram
    /\ promptEntries = 0

\* ---- bootstrap ----

\* start() without the activation delay: the body of the timeout callback
\* run at once
start_noDelay ==
    /\ dom' = injectDialog(injectStyle(dom))
    /\ startCalls' = startCalls + 1
    /\ UNCHANGED <<timeouts, timeoutPending>>
    /\ pc' = "running"
    /\ started' = TRUE
    /\ watchPermissionCall(TRUE, MaxTicks)
    /\ intervals' = Append(intervals, POLL_INTERVAL)

\* start() without injectDialog()
start_noDialog ==
    /\ dom' = injectStyle(dom)
    /\ startCalls' = startCalls + 1
    /\ timeouts' = timeouts + 1
    /\ timeoutPending' = START_DELAY
    /\ pc' = "running"
    /\ UNCHANGED <<started, intervals, inflight, queriesIssued>>

\* function start()
start ==
    /\ dom' = injectDialog(injectStyle(dom))
    /\ startCalls' = startCalls + 1
    /\ timeouts' = timeouts + 1
    /\ timeoutPending' = START_DELAY
    /\ pc' = "running"
    /\ UNCHANGED <<started, intervals, inflight, queriesIssued>>

\* the script body: start now, or on DOMContentLoaded while still loading
ScriptEval ==
    /\ pc = "eval"
    /\ IF readyState = "loading"
       THEN /\ pc' = "listening"
            /\ UNCHANGED <<dom, startCalls, timeouts, timeoutPending,
                           started, intervals, inflight, queriesIssued>>
       ELSE start
    /\ UNCHANGED <<readyState, lastState, perm, oracle, fetchPending,
                   ticksFired, triggerCalls, lastTick, lastChangeObs,
                   everAnswered, lastFetch, uncaught>>
    /\ UNCHANGED <<promptEntries, uiCalls>>

DOMContentLoaded ==
    /\ pc = "listening"
    /\ start
    /\ readyState' = "complete"
    /\ UNCHANGED <<lastState, perm, oracle, fetchPending, ticksFired,
                   triggerCalls, lastTick, lastChangeObs, everAnswered,
                   lastFetch, uncaught>>
    /\ UNCHANGED <<promptEntries, uiCalls>>

\* the activation callback installed with setInterval instead of setTimeout
TimeoutFire_repeating(n) ==
    /\ timeoutPending > 0
    /\ timeoutPending' = timeoutPending
    /\ started' = TRUE
    /\ watchPermissionCall(TRUE, n)
    /\ intervals' = Append(intervals, POLL_INTERVAL)
    /\ UNCHANGED <<readyState, pc, lastState, dom, startCalls, timeouts, perm,
                   oracle, fetchPending, ticksFired, triggerCalls, lastTick,
                   lastChangeObs, everAnswered, lastFetch, uncaught>>
    /\ UNCHANGED <<promptEntries, uiCalls>>

\* the setTimeout callback of start()
TimeoutFire(n) ==
    /\ timeoutPending > 0
    /\ timeoutPending' = 0
    /\ started' = TRUE
    /\ watchPermissionCall(TRUE, n)
    /\ intervals' = Append(intervals, POLL_INTERVAL)
    /\ UNCHANGED <<readyState, pc, lastState, dom, startCalls, timeouts, perm,
                   oracle, fetchPending, ticksFired, triggerCalls, lastTick,
                   lastChangeObs, everAnswered, lastFetch, uncaught>>
    /\ UNCHANGED <<promptEntries, uiCalls>>

\* ---- the poll loop ----

\* the interval timer runs watchPermission up to its await
IntervalTick(n) ==
    /\ Len(intervals) > 0
    /\ ticksFired' = Bump(ticksFired, n)
    /\ watchPermissionCall(started, n)
    /\ UNCHANGED <<readyState, pc, lastState, started, dom, startCalls,
                   timeouts, timeoutPending, intervals, perm, oracle,
                   fetchPending, triggerCalls, lastTick, lastChangeObs,
                   everAnswered, lastFetch, uncaught>>
    /\ UNCHANGED <<promptEntries, uiCalls>>

\* the browser answers an outstanding query with the permission's value at
\* that moment, or rejects it
QueryResolve(i) ==
    /\ inflight[i].st = "pending"
    /\ LET outcome == IF oracle = "up" THEN perm ELSE Thrown
       IN /\ inflight' = [inflight EXCEPT ![i] =
                [st |-> "resolved", raw |-> outcome, res |-> queryLNA(outcome),
                 late |-> inflight[i].late, dup |-> inflight[i].dup]]
          /\ everAnswered' = (everAnswered \/ outcome # Thrown)
    /\ UNCHANGED <<readyState, pc, lastState, started, dom, startCalls,
                   timeouts, timeoutPending, intervals, perm, oracle,
                   fetchPending, queriesIssued, ticksFired, triggerCalls,
                   lastTick, lastChangeObs, lastFetch, uncaught>>
    /\ UNCHANGED <<promptEntries, uiCalls>>

\* the suspended ticks when tick i completes: those issued before it have
\* been overtaken by a tick issued later, and those holding the state that
\* tick i wrote to lastState (w, "none" when it wrote nothing) are duplicates
Overtake(s, i, w) ==
    [j \in 1..Len(s) |->
        [s[j] EXCEPT !.late = (s[j].late \/ j < i),
                     !.dup = (s[j].dup \/ (j # i /\ s[j].st = "resolved"
                                              /\ s[j].raw = w))]]

\* watchPermission continues after its await and runs to its end; t says
\* whether overtaking is recorded (it is in RaceSpec)
TickResume(i, n, t) ==
    /\ inflight[i].st = "resolved"
    /\ LET r == watchPermissionResume(inflight[i].res, lastState, dom)
       IN /\ lastState' = r.lastState
          /\ dom' = r.dom
          /\ triggerCalls' = IF r.trigger = 1 THEN Bump(triggerCalls, n) ELSE triggerCalls
          /\ fetchPending' = IF r.trigger = 1 THEN Bump(fetchPending, n) ELSE fetchPending
          /\ lastTick' = [raw |-> inflight[i].raw, obs |-> inflight[i].res,
                          prev |-> lastState, after |-> lastTick.raw,
                          show |-> r.show, hide |-> r.hide, trigger |-> r.trigger,
                          late |-> inflight[i].late, dup |-> inflight[i].dup,
                          steps |-> r.steps]
          /\ lastChangeObs' = IF r.lastState # lastState THEN inflight[i].res
                              ELSE lastChangeObs
          /\ uncaught' = (uncaught \/ r.threw)
    /\ inflight' = RemoveAt(
            IF t THEN Overtake(inflight, i,
                               IF lastState' # lastState THEN lastState' ELSE "none")
            ELSE inflight, i)
    /\ UNCHANGED <<readyState, pc, started, startCalls, timeouts,
                   timeoutPending, intervals, perm, oracle, queriesIssued,
                   ticksFired, everAnswered, lastFetch>>
    /\ UNCHANGED <<promptEntries, uiCalls>>

\* FetchSettle that resets lastState when the fetch failed, to have the
\* prompt provoked again
FetchSettle_resetsState(outcome) ==
    /\ fetchPending > 0
    /\ fetchPending' = fetchPending - 1
    /\ lastFetch' = outcome
    /\ uncaught' = (uncaught \/ triggerPrompt(outcome))
    /\ lastState' = IF outcome = Thrown THEN Unset ELSE lastState
    /\ UNCHANGED <<readyState, pc, started, dom, startCalls,
                   timeouts, timeoutPending, intervals, perm, oracle, inflight,
                   queriesIssued, ticksFired, triggerCalls, lastTick,
                   lastChangeObs, everAnswered>>
    /\ UNCHANGED <<promptEntries, uiCalls>>

\* the fetch of a triggerPrompt call settles: "ok" or a network error
FetchSettle(outcome) ==
    /\ fetchPending > 0
    /\ fetchPending' = fetchPending - 1
    /\ lastFetch' = outcome
    /\ uncaught' = (uncaught \/ triggerPrompt(outcome))
    /\ UNCHANGED <<readyState, pc, lastState, started, dom, startCalls,
                   timeouts, timeoutPending, intervals, perm, oracle, inflight,
                   queriesIssued, ticksFired, triggerCalls, lastTick,
                   lastChangeObs, everAnswered>>
    /\ UNCHANGED <<promptEntries, uiCalls>>

\* ---- environment ----

\* the user (or the browser) changes the permission
PermChange(p, n) ==
    /\ p # perm
    /\ perm' = p
    /\ promptEntries' = IF p = "prompt" THEN Bump(promptEntries, n) ELSE promptEntries
    /\ UNCHANGED <<readyState, pc, lastState, started, dom, startCalls,
                   timeouts, timeoutPending, intervals, oracle, inflight,
                   fetchPending, queriesIssued, ticksFired, triggerCalls,
                   lastTick, lastChangeObs, everAnswered, lastFetch, uncaught>>
    /\ UNCHANGED uiCalls

\* queries start or stop being rejected
OracleFlip ==
    /\ oracle # "absent"
    /\ oracle' = IF oracle = "up" THEN "down" ELSE "up"
    /\ UNCHANGED <<readyState, pc, lastState, started, dom, startCalls,
                   timeouts, timeoutPending, intervals, perm, inflight,
                   fetchPending, queriesIssued, ticksFired, triggerCalls,
                   lastTick, lastChangeObs, everAnswered, lastFetch, uncaught>>
    /\ UNCHANGED <<promptEntries, uiCalls>>

\* ---- specifications ----

Next ==
    \/ ScriptEval
    \/ DOMContentLoaded
    \/ TimeoutFire(MaxTicks)
    \/ (queriesIssued < MaxTicks /\ IntervalTick(MaxTicks))
    \/ \E i \in 1..Len(inflight) : QueryResolve(i)
    \/ \E i \in 1..Len(inflight) : TickResume(i, MaxTicks, FALSE)
    \/ \E o \in {"ok", Thrown} : FetchSettle(o)
    \/ \E p \in PermStates : PermChange(p, 0)
    \/ OracleFlip

Spec == Init /\ [][Next]_vars

\* Spec with overtaking among suspended ticks recorded and the permission's
\* entries into "prompt" counted, the permission at page load included
RaceInit ==
    /\ InitProgram
    /\ promptEntries = IF perm = "prompt" THEN 1 ELSE 0

RaceNext ==
    \/ ScriptEval
    \/ DOMContentLoaded
    \/ TimeoutFire(RaceTicks)
    \/ (queriesIssued < RaceTicks /\ IntervalTick(RaceTicks))
    \/ \E i \in 1..Len(inflight) : QueryResolve(i)
    \/ \E i \in 1..Len(inflight) : TickResume(i, RaceTicks, TRUE)
    \/ \E o \in {"ok", Thrown} : FetchSettle(o)
    \/ \E p \in PermStates : PermChange(p, RaceTicks)
    \/ OracleFlip

RaceSpec == RaceInit /\ [][RaceNext]_vars

\* The interval timer never stops, so the poll loop is unbounded: here the
\* bound is on the ticks outstanding at once, and the observation counters
\* only count to LiveCount.  The timers fire, the browser answers every query
\* and every continuation is run; the environment is free.
LiveNext ==
    \/ ScriptEval
    \/ DOMContentLoaded
    \/ TimeoutFire(LiveCount)
    \/ (Len(inflight) < MaxInFlight /\ IntervalTick(LiveCount))
    \/ \E i \in 1..Len(inflight) : QueryResolve(i)
    \/ \E i \in 1..Len(inflight) : TickResume(i, LiveCount, FALSE)
    \/ \E o \in {"ok", Thrown} : FetchSettle(o)
    \/ \E p \in PermStates : PermChange(p, 0)
    \/ OracleFlip

Fairness ==
    /\ WF_vars(ScriptEval)
    /\ WF_vars(DOMContentLoaded)
    /\ WF_vars(TimeoutFire(LiveCount))
    /\ WF_vars(Len(inflight) < MaxInFlight /\ IntervalTick(LiveCount))
    /\ \A i \in 1..MaxInFlight : WF_vars(i <= Len(inflight) /\ QueryResolve(i))
    /\ \A i \in 1..MaxInFlight : WF_vars(i <= Len(inflight) /\ TickResume(i, LiveCount, FALSE))

LiveSpec == Init /\ [][LiveNext]_vars /\ Fairness

\* ---- the UI functions on their own ----

\* the documents the UI functions can be called on: the style block and the
\* dialog present or not (a page that loaded the script before has them), the
\* body blocked or not, the class "show" only on a dialog that exists
UIStates ==
    {d \in [styles : 0..1, dialogs : 0..1, blocked : BOOLEAN, show : BOOLEAN] :
        d.dialogs = 0 => ~d.show}

UIInit ==
    /\ dom \in UIStates
    /\ uiCalls = <<>>
    /\ readyState = "complete"
    /\ pc = "eval"
    /\ lastState = Unset
    /\ started = FALSE
    /\ startCalls = 0
    /\ timeouts = 0
    /\ timeoutPending = 0
    /\ intervals = <<>>
    /\ perm = "prompt"
    /\ oracle = "up"
    /\ inflight = <<>>
    /\ fetchPending = 0
    /\ queriesIssued = 0
    /\ ticksFired = 0
    /\ triggerCalls = 0
    /\ lastTick = [raw |-> "none", obs |-> "none", prev |-> "none",
                   after |-> "none", show |-> 0, hide |-> 0, trigger |-> 0,
                   late |-> FALSE, dup |-> FALSE, steps |-> <<>>]
    /\ lastChangeObs = "none"
    /\ everAnswered = FALSE
    /\ lastFetch = "none"
    /\ uncaught = FALSE
    /\ promptEntries = 0

\* one call of a UI function on the document
UICall(name, d) ==
    /\ Len(uiCalls) < MaxCalls
    /\ dom' = d
    /\ uiCalls' = Append(uiCalls, name)
    /\ UNCHANGED <<readyState, pc, lastState, started, startCalls, timeouts,
                   timeoutPending, intervals, perm, oracle, inflight,
                   fetchPending, queriesIssued, ticksFired, triggerCalls,
                   lastTick, lastChangeObs, everAnswered, lastFetch, uncaught,
                   promptEntries>>

CallInjectStyle == UICall("injectStyle", injectStyle(dom))

CallInjectDialog == UICall("injectDialog", injectDialog(dom))

CallShowDialog == UICall("showDialog", showDialog(dom))

CallHideDialog == UICall("hideDialog", hideDialog(dom))

UINext ==
    \/ CallInjectStyle
    \/ CallInjectDialog
    \/ CallShowDialog
    \/ CallHideDialog

UISpec == UIInit /\ [][UINext]_vars

\* ---- properties ----

\* a step in which a tick's continuation (watchPermission after its await)
\* ran to its end
TickCompletes == Len(inflight') < Len(inflight)

\* the calls the most recently completed tick made
NoCallsIn(t) == t.show = 0 /\ t.hide = 0 /\ t.trigger = 0

\* C1: after every tick the overlay is visible iff the most recent tick that
\* changed lastState observed "prompt"; while no tick has changed lastState
\* the overlay is hidden.
C1_OverlayIffLastChangePrompt ==
    /\ dom.show <=> (lastChangeObs = "prompt")
    /\ lastChangeObs = "none" => ~dom.show

\* C1 witness: shown by a tick that moved to "prompt", after the overlay had
\* been hidden by a tick that moved to "granted", and a later tick observed
\* "prompt" again.
C1_Witness ==
    /\ dom.show /\ lastChangeObs = "prompt"
    /\ lastTick.obs = "prompt" /\ lastTick.prev = "prompt"
    /\ triggerCalls = 2

\* C2: a tick calls triggerPrompt exactly once when it changes lastState to
\* "prompt", and not at all otherwise (lastState already "prompt", or the
\* tick moves to "granted" or "denied"); nothing else calls it.
C2_OneTriggerPerEntry ==
    [][triggerCalls' = triggerCalls +
          (IF lastState' # lastState /\ lastState' = "prompt" THEN 1 ELSE 0)]_vars

\* C2 witness: Scenario A then B then C: one trigger call after a tick that
\* entered "prompt", a tick that observed "prompt" again and a tick that
\* moved to "granted".
C2_Witness ==
    /\ triggerCalls = 1
    /\ lastTick.obs = "granted" /\ lastTick.prev = "prompt"
    /\ queriesIssued >= 3 /\ inflight = <<>>

\* C3: a tick that observes the stored state calls neither showDialog,
\* hideDialog nor triggerPrompt and leaves lastState and the UI unchanged.
C3_NoOpLaw ==
    [][(TickCompletes /\ lastTick'.obs = lastState) =>
          /\ NoCallsIn(lastTick')
          /\ lastState' = lastState
          /\ dom' = dom
          /\ triggerCalls' = triggerCalls
          /\ fetchPending' = fetchPending]_vars

\* C3 witness: a tick observed "prompt" while lastState was "prompt".
C3_Witness ==
    /\ lastTick.obs = "prompt" /\ lastTick.prev = "prompt"
    /\ NoCallsIn(lastTick) /\ dom.show

\* the activation timeout has fired
WarmUpOver == timeouts > 0 /\ timeoutPending = 0

\* C4: until the activation delay has elapsed started is false, and while
\* started is false no query has been issued, lastState is the initial null,
\* the overlay is hidden and triggerPrompt has not been called.
C4_WarmUpGating ==
    /\ ~WarmUpOver => ~started
    /\ ~started =>
          /\ queriesIssued = 0 /\ inflight = <<>>
          /\ lastState = Unset
          /\ ~dom.show /\ ~dom.blocked
          /\ triggerCalls = 0

\* C4 witness: start() has run and the activation timeout has not fired,
\* while the permission is "prompt".
C4_Witness ==
    /\ pc = "running" /\ timeoutPending = START_DELAY /\ ~started
    /\ perm = "prompt" /\ oracle = "up"

\* C5: a tick whose query failed lets no exception escape and makes no show,
\* hide or trigger call; while no query has been answered the overlay is
\* hidden, triggerPrompt has not been called and nothing has been thrown.
C5_FailedQueryIsSilent ==
    /\ [][(TickCompletes /\ lastTick'.raw = Thrown) =>
            /\ ~uncaught'
            /\ NoCallsIn(lastTick')
            /\ dom' = dom
            /\ triggerCalls' = triggerCalls]_vars
    /\ [](~everAnswered =>
            /\ ~dom.show /\ ~dom.blocked
            /\ triggerCalls = 0
            /\ ~uncaught)

\* C5 witness: every query so far failed, with the API absent, and the
\* ticks completed.
C5_Witness ==
    /\ oracle = "absent" /\ ~everAnswered
    /\ queriesIssued = MaxTicks /\ inflight = <<>>
    /\ lastTick.raw = Thrown

\* C6 as stated: a tick whose query failed leaves a stored state that is
\* none of the browser's states ("unknown" is recorded).
C6_FailureRecordsUnknown ==
    [][(TickCompletes /\ lastTick'.raw = Thrown) =>
          lastState' \notin PermStates]_vars

\* C6: a tick whose query failed leaves lastState and the UI as they were,
\* so lastState is only ever null or a state the browser reported, and a
\* later tick that observes the state held before the failure is a no-op
\* (undecided, failure, undecided: no second show or trigger).
C6_FailureKeepsStoredState ==
    /\ [][(TickCompletes /\ lastTick'.raw = Thrown) =>
            (lastState' = lastState /\ dom' = dom)]_vars
    /\ [][(TickCompletes /\ lastTick.raw = Thrown /\ lastTick'.obs = lastTick.prev) =>
            (NoCallsIn(lastTick') /\ lastState' = lastState
             /\ triggerCalls' = triggerCalls)]_vars
    /\ [](lastState \in PermStates \cup {Unset})

\* C6 witness: undecided, then a failed query, then undecided again, with the
\* single trigger call of the first tick.
C6_Witness ==
    /\ lastTick.after = Thrown
    /\ lastTick.obs = "prompt" /\ lastTick.prev = "prompt"
    /\ lastState = "prompt" /\ dom.show
    /\ triggerCalls = 1

\* every answer delivered but not yet handled is a failure
OnlyFailuresInFlight ==
    \A i \in 1..Len(inflight) :
        inflight[i].st = "resolved" => inflight[i].raw = Thrown

\* C7 as stated: if from some point on every query fails, the overlay does
\* not stay visible for ever.
C7_FailuresNeverKeepBlocked ==
    <>[](oracle # "up") => []<>(~dom.show)

\* C7: failing queries change nothing about the overlay: while queries fail
\* and no answer is waiting to be handled, a hidden overlay stays hidden and
\* a visible overlay stays visible (and the body stays blocked).
C7_FailuresFreezeOverlay ==
    [][(oracle # "up" /\ oracle' # "up" /\ OnlyFailuresInFlight) =>
          (dom'.show = dom.show /\ dom'.blocked = dom.blocked
           /\ lastState' = lastState)]_vars

\* C7 witness: the overlay is visible, queries are failing, and a tick whose
\* query failed has completed.
C7_Witness ==
    /\ dom.show /\ dom.blocked
    /\ oracle = "down"
    /\ lastTick.raw = Thrown /\ lastTick.prev = "prompt"
    /\ inflight = <<>>

Settled(p) == perm = p /\ oracle = "up"

\* C8: under fair ticks and answers, if the permission settles for good on
\* "granted" or "denied" and queries succeed, the overlay is eventually
\* hidden for good and lastState is eventually the settled value.
C8_SettledEventuallyHidden ==
    \A p \in {"granted", "denied"} :
        <>[]Settled(p) => <>[](~dom.show /\ ~dom.blocked /\ lastState = p)

\* C8 witness: the permission is "granted", the overlay was visible and the
\* tick that observed "granted" has hidden it.
C8_Witness ==
    /\ Settled("granted")
    /\ lastState = "granted" /\ ~dom.show
    /\ lastTick.obs = "granted" /\ lastTick.prev = "prompt" /\ lastTick.hide = 1
    /\ lastTick.after = Thrown

\* C9: once set, started stays set and the interval timer stays installed,
\* whatever a tick's outcome; every run of watchPermission by the interval
\* timer issues one new query.
C9_PollLoopNeverStops ==
    [][/\ started => started'
       /\ Len(intervals) > 0 => intervals' = intervals
       /\ ticksFired' # ticksFired =>
             /\ queriesIssued' = queriesIssued + 1
             /\ Len(inflight') = Len(inflight) + 1
             /\ inflight'[Len(inflight')].st = "pending" \/ oracle = "absent"]_vars

\* C9 witness: after a tick whose query failed and a fetch that failed, the
\* timer has fired again while an earlier query is still outstanding.
C9_Witness ==
    /\ started /\ Len(intervals) = 1
    /\ lastTick.raw = Thrown /\ lastFetch = Thrown
    /\ Len(inflight) = 2 /\ inflight[1].st = "pending" /\ inflight[2].st = "pending"
    /\ ticksFired >= 2

\* C10: when the fetch settles, with success or an error, lastState, the UI,
\* started and the outstanding ticks are unchanged, nothing is thrown and no
\* new fetch is started; the tick that called triggerPrompt started exactly
\* one fetch and ended while that fetch was pending.
C10_TriggerOutcomeDiscarded ==
    [][/\ fetchPending' < fetchPending =>
             /\ lastState' = lastState /\ dom' = dom /\ started' = started
             /\ inflight' = inflight /\ triggerCalls' = triggerCalls
             /\ fetchPending' = fetchPending - 1
             /\ ~uncaught'
       /\ triggerCalls' # triggerCalls =>
             /\ TickCompletes
             /\ triggerCalls' = triggerCalls + 1
             /\ fetchPending' = fetchPending + 1]_vars

\* C10 witness: the one fetch ended with a network error and the overlay is
\* still visible; a later fetch is still pending.
C10_Witness ==
    /\ lastFetch = Thrown /\ ~uncaught
    /\ triggerCalls = 2 /\ fetchPending = 1
    /\ lastState = "prompt" /\ dom.show

\* the number of times a completed tick assigned lastState
Writes(t) == Cardinality({k \in DOMAIN t.steps : t.steps[k] = "lastState"})

\* C11: lastState changes only in the step in which a tick's continuation
\* runs, that tick assigns it once, and the value is the state the browser
\* reported to that tick; a tick that does not assign it leaves it as it was.
C11_LastStateWrittenOnlyByTick ==
    [][/\ lastState' # lastState =>
             /\ TickCompletes
             /\ lastState' = lastTick'.raw
             /\ Writes(lastTick') = 1
       /\ TickCompletes => Writes(lastTick') <= 1
       /\ (TickCompletes /\ Writes(lastTick') = 0) => lastState' = lastState]_vars

\* C11 witness: a tick moved lastState from "prompt" to "denied", after the
\* fetch of the earlier trigger had failed.
C11_Witness ==
    /\ lastState = "denied"
    /\ lastTick.raw = "denied" /\ lastTick.prev = "prompt"
    /\ Writes(lastTick) = 1
    /\ lastFetch = Thrown /\ pc = "running" /\ Len(intervals) = 1

\* the UI function called in this step, and the one called before it
ThisCall == IF Len(uiCalls') > Len(uiCalls) THEN uiCalls'[Len(uiCalls')] ELSE "none"

PrevCall == IF uiCalls = <<>> THEN "none" ELSE uiCalls[Len(uiCalls)]

\* C12: a second showDialog in a row changes nothing, a second hideDialog in
\* a row changes nothing, and hideDialog after showDialog leaves the body
\* unblocked and the overlay not visible.
C12_ShowHideIdempotent ==
    [][/\ (PrevCall = "showDialog" /\ ThisCall = "showDialog") => dom' = dom
       /\ (PrevCall = "hideDialog" /\ ThisCall = "hideDialog") => dom' = dom
       /\ (PrevCall = "showDialog" /\ ThisCall = "hideDialog") =>
             (~dom'.blocked /\ ~dom'.show)]_vars

\* C12 witness: showDialog twice, then hideDialog, on a document with the
\* dialog.
C12_Witness ==
    /\ uiCalls = <<"showDialog", "showDialog", "hideDialog">>
    /\ dom.dialogs = 1 /\ ~dom.blocked /\ ~dom.show

\* C13: showDialog called on a document without the dialog changes nothing,
\* and does not leave the body blocked with no overlay visible.
C13_ShowGuardedWithoutDialog ==
    [][(ThisCall = "showDialog" /\ dom.dialogs = 0) =>
          (dom' = dom /\ ~(dom'.blocked /\ ~dom'.show))]_vars

\* C14: after a call of injectStyle there is exactly one style block, after
\* a call of injectDialog exactly one dialog; the call changes nothing else,
\* and nothing at all when the element was there.
C14_SingleInstanceInjection ==
    [][/\ ThisCall = "injectStyle" =>
             /\ dom' = [dom EXCEPT !.styles = 1]
             /\ dom.styles = 1 => dom' = dom
       /\ ThisCall = "injectDialog" =>
             /\ dom' = [dom EXCEPT !.dialogs = 1]
             /\ dom.dialogs = 1 => dom' = dom
       /\ dom'.styles >= dom.styles /\ dom'.dialogs >= dom.dialogs
       /\ dom'.styles <= 1 /\ dom'.dialogs <= 1]_vars

\* C14 witness: injectDialog, injectStyle and injectDialog again on a
\* document that had neither element.
C14_Witness ==
    /\ uiCalls = <<"injectDialog", "injectStyle", "injectDialog">>
    /\ dom.styles = 1 /\ dom.dialogs = 1

\* C15: start() runs at most once, and exactly once as soon as the script
\* has run on a ready document or DOMContentLoaded has fired; it sets one
\* timeout of START_DELAY, whose callback creates the one interval timer of
\* period POLL_INTERVAL; started goes from false to true in that callback and
\* never back.
C15_SessionSetUpOnce ==
    /\ [](/\ startCalls = (IF pc = "running" THEN 1 ELSE 0)
          /\ timeouts = startCalls
          /\ timeoutPending \in {0, START_DELAY}
          /\ intervals = (IF WarmUpOver THEN <<POLL_INTERVAL>> ELSE <<>>)
          /\ started <=> WarmUpOver)
    /\ [][started => started']_vars

\* C15 witness: start() has run, the timeout has fired and the interval
\* timer has run watchPermission as often as the bound allows.
C15_Witness ==
    /\ readyState = "complete" /\ pc = "running"
    /\ startCalls = 1 /\ timeouts = 1 /\ timeoutPending = 0
    /\ intervals = <<POLL_INTERVAL>> /\ started
    /\ ticksFired = MaxTicks - 1

\* C16 as stated: a tick overtaken by a tick issued later changes neither
\* lastState nor the UI and makes no call when its result arrives, and
\* triggerPrompt is called at most as often as the permission became
\* "prompt".
C16_LateTickIsIgnored ==
    /\ [][(TickCompletes /\ lastTick'.late) =>
            (lastState' = lastState /\ dom' = dom /\ NoCallsIn(lastTick'))]_vars
    /\ [](triggerCalls <= promptEntries)

C18_StepsAreOrdered ==
    [][TickCompletes =>
          /\ lastTick'.steps =
                IF lastState' = lastState THEN <<>>
                ELSE IF lastTick'.raw = "prompt"
                     THEN <<"lastState", "showDialog", "triggerPrompt">>
                ELSE <<"lastState", "hideDialog">>
          /\ lastState' # lastState => lastState' = lastTick'.raw
          /\ lastTick'.show = (IF lastTick'.steps = <<"lastState", "showDialog", "triggerPrompt">> THEN 1 ELSE 0)
          /\ lastTick'.trigger = lastTick'.show
          /\ lastTick'.hide = (IF lastTick'.steps = <<"lastState", "hideDialog">> THEN 1 ELSE 0)
          /\ fetchPending' = fetchPending + lastTick'.trigger
          /\ lastTick'.trigger = 1 => (dom'.show /\ lastFetch' = lastFetch)]_vars

\* C18 witness: a tick moved from "granted" to "prompt" and has ended while
\* its fetch and the fetch of an earlier tick are both still outstanding.
C18_Witness ==
    /\ lastTick.steps = <<"lastState", "showDialog", "triggerPrompt">>
    /\ lastTick.prev = "granted" /\ lastState = "prompt"
    /\ fetchPending = 2 /\ lastFetch = "none" /\ inflight = <<>>

\* C19 as stated: the first tick to complete always moves lastState off its
\* initial null, whatever the query gave, a failure included, and unless the
\* state is "prompt" it leaves the overlay hidden and calls no triggerPrompt.
C19_FirstTickAlwaysLeavesSentinel ==
    [][(TickCompletes /\ lastTick.raw = "none") =>
          /\ lastState' # Unset
          /\ lastTick'.raw # "prompt" => (~dom'.show /\ lastTick'.trigger = 0)]_vars

\* C19: null is no PermissionStatus.state, so a tick that is given a state
\* while lastState is still null always counts as a change: it stores the
\* state, and lastState is never null again; for "granted" and "denied" it
\* calls hideDialog, leaves the overlay hidden and calls no triggerPrompt.
\* A tick whose query failed returns before the comparison and leaves
\* lastState null, the overlay hidden and triggerPrompt uncalled.
C19_FirstObservedStateIsAChange ==
    [][/\ (TickCompletes /\ lastState = Unset /\ lastTick'.raw \in PermStates) =>
             /\ lastState' = lastTick'.raw /\ lastState' # Unset
             /\ lastTick'.steps # <<>>
             /\ lastTick'.raw # "prompt" =>
                   (lastTick'.hide = 1 /\ ~dom'.show /\ ~dom'.blocked
                    /\ lastTick'.trigger = 0 /\ triggerCalls' = 0)
             /\ lastTick'.raw = "prompt" =>
                   (lastTick'.show = 1 /\ dom'.show /\ triggerCalls' = 1)
       /\ (TickCompletes /\ lastState = Unset /\ lastTick'.raw = Thrown) =>
             (lastState' = Unset /\ NoCallsIn(lastTick') /\ ~dom'.show
              /\ triggerCalls' = 0)
       /\ lastState # Unset => lastState' # Unset]_vars

\* C19 witness: the first tick failed and left lastState null; the next was
\* given "denied", stored it and called hideDialog on the hidden overlay.
C19_Witness ==
    /\ lastTick.after = Thrown /\ lastTick.prev = Unset
    /\ lastTick.raw = "denied" /\ lastTick.hide = 1
    /\ lastState = "denied" /\ ~dom.show /\ triggerCalls = 0
    /\ queriesIssued = 2 /\ inflight = <<>>

\* C20: in every state the body has the class __lna_blocked__ iff the dialog
\* has the class show, and once start() has run there is exactly one dialog
\* in the document, so every tick finds it.
C20_BlockedIffShown ==
    /\ dom.blocked <=> dom.show
    /\ pc = "running" => dom.dialogs = 1
    /\ (started \/ inflight # <<>> \/ lastTick.raw # "none") => pc = "running"

\* C20 witness: a tick has shown the overlay: both markers are set.
C20_Witness ==
    /\ dom.blocked /\ dom.show /\ dom.dialogs = 1
    /\ lastTick.show = 1 /\ lastState = "prompt"

====
